---- MODULE Spec2Model ----
(***************************************************************************)
(* Model of pkg/s3/agent/agent.go: NewS3Agent and validateConfig.          *)
(*                                                                         *)
(* A Go string is a sequence of one-character strings, a []byte a sequence *)
(* of blocks, a pointer or an error that may be nil a sequence of length   *)
(* at most one (<<>> is nil).                                              *)
(***************************************************************************)
EXTENDS Integers, Sequences, FiniteSets, TLC

\* Longest endpoint string enumerated.
MaxLen == 3

\* ------------------------------------------------------------------------
\* Characters and strings
\* ------------------------------------------------------------------------
Letters == {"a"}
Digits == {"1"}
HexDigits == {"a", "1"}
CtlBytes == {"\t"}
Chars == Letters \cup Digits \cup {":", "/", "%"} \cup CtlBytes

SeqsUpTo(S, n) == UNION {[1..k -> S] : k \in 0..n}

Min(S) == CHOOSE x \in S : \A y \in S : x <= y
Max(S) == CHOOSE x \in S : \A y \in S : y <= x

HasPrefix(s, pre) == Len(s) >= Len(pre) /\ SubSeq(s, 1, Len(pre)) = pre

\* 0 when c does not occur in s, else the first (last) position of c.
Index(s, c) ==
  LET at == {i \in 1..Len(s) : s[i] = c} IN IF at = {} THEN 0 ELSE Min(at)
LastIndex(s, c) ==
  LET at == {i \in 1..Len(s) : s[i] = c} IN IF at = {} THEN 0 ELSE Max(at)

\* ------------------------------------------------------------------------
\* Errors
\* ------------------------------------------------------------------------
\* An error value: who created it, its text, and the values formatted into
\* the text (a string for %s, an error for %v).
NewError(origin, text) ==
  [origin |-> origin, text |-> text, subject |-> <<>>, cause |-> <<>>]

\* fmt.Errorf as used in agent.go.
Errorf(text, subject, cause) ==
  [origin |-> "agent", text |-> text, subject |-> subject, cause |-> cause]

UrlError(text) == NewError("net/url", text)

\* ------------------------------------------------------------------------
\* net/url.Parse, as far as its error result goes (agent.go discards the URL)
\* ------------------------------------------------------------------------
stringContainsCTLByte(s) == \E i \in 1..Len(s) : s[i] \in CtlBytes

\* First position at which the scan for a scheme stops, 0 if it runs off
\* the end of the string.
SchemeStop(s) ==
  LET stops == {i \in 1..Len(s) :
                  ~(s[i] \in Letters \/ (s[i] \in Digits /\ i > 1))}
  IN IF stops = {} THEN 0 ELSE Min(stops)

getScheme(s) ==
  LET i == SchemeStop(s) IN
  IF i # 0 /\ s[i] = ":"
    THEN IF i = 1
           THEN [scheme |-> <<>>, rest |-> <<>>,
                 err |-> <<UrlError("missing protocol scheme")>>]
           ELSE [scheme |-> SubSeq(s, 1, i - 1),
                 rest |-> SubSeq(s, i + 1, Len(s)), err |-> <<>>]
    ELSE [scheme |-> <<>>, rest |-> s, err |-> <<>>]

\* unescape: a "%" must be followed by two hexadecimal digits; in a host the
\* escaped byte must not be below 0x80 (first digit below 8).
unescape(s, hostMode) ==
  IF \E i \in 1..Len(s) :
        /\ s[i] = "%"
        /\ \/ i + 2 > Len(s)
           \/ s[i + 1] \notin HexDigits
           \/ s[i + 2] \notin HexDigits
           \/ hostMode /\ s[i + 1] \in Digits
    THEN <<UrlError("invalid URL escape")>>
    ELSE <<>>

validOptionalPort(port) ==
  \/ port = <<>>
  \/ /\ port[1] = ":"
     /\ \A i \in 2..Len(port) : port[i] \in Digits

parseHost(host) ==
  LET i == LastIndex(host, ":") IN
  IF i # 0 /\ ~validOptionalPort(SubSeq(host, i, Len(host)))
    THEN <<UrlError("invalid port after host")>>
    ELSE unescape(host, TRUE)

\* The error of url.Parse(rawURL): <<>> when the string parses.
urlParse(rawURL) ==
  IF stringContainsCTLByte(rawURL)
    THEN <<UrlError("invalid control character in URL")>>
  ELSE
    LET g == getScheme(rawURL)
        rest == g.rest
        segment == IF Index(rest, "/") = 0 THEN rest
                   ELSE SubSeq(rest, 1, Index(rest, "/") - 1)
        afterSlashes == SubSeq(rest, 3, Len(rest))
        cut == Index(afterSlashes, "/")
        authority == IF cut = 0 THEN afterSlashes
                     ELSE SubSeq(afterSlashes, 1, cut - 1)
        path == IF cut = 0 THEN <<>>
                ELSE SubSeq(afterSlashes, cut, Len(afterSlashes))
    IN
    IF g.err # <<>> THEN g.err
    ELSE IF ~HasPrefix(rest, <<"/">>) /\ g.scheme # <<>> THEN <<>>
    ELSE IF ~HasPrefix(rest, <<"/">>) /\ Index(segment, ":") # 0
      THEN <<UrlError("first path segment in URL cannot contain colon")>>
    ELSE IF /\ g.scheme # <<>> \/ ~HasPrefix(rest, <<"/", "/", "/">>)
            /\ HasPrefix(rest, <<"/", "/">>)
      THEN IF parseHost(authority) # <<>> THEN parseHost(authority)
           ELSE unescape(path, FALSE)
    ELSE unescape(rest, FALSE)

\* ------------------------------------------------------------------------
\* Config and validateConfig
\* ------------------------------------------------------------------------
AccessKeys == {"", "AK"}
SecretKeys == {"", "SK"}
Endpoints == SeqsUpTo(Chars, MaxLen)
\* nil, bytes that are no certificate, bytes of a certificate
RootCAs == {<<>>, <<"junk">>, <<"cert">>}

Configs ==
  [AccessKey : AccessKeys, SecretKey : SecretKeys,
   Endpoint : Endpoints, RootCA : RootCAs]

\* The zero value of Config, held by a caller that has not called yet.
ZeroConfig ==
  [AccessKey |-> "", SecretKey |-> "", Endpoint |-> <<>>, RootCA |-> <<>>]

\* validateConfig with the secret key check left out.
validateConfig_NoSecretKey(c) ==
  IF c.Endpoint = <<>>
    THEN <<Errorf("endpoint is empty", <<>>, <<>>)>>
  ELSE IF urlParse(c.Endpoint) # <<>>
    THEN <<Errorf("url parse endpoint [%s] failed, error is [%v]",
                  c.Endpoint, urlParse(c.Endpoint))>>
  ELSE IF c.AccessKey = ""
    THEN <<Errorf("access key is empty", <<>>, <<>>)>>
  ELSE <<>>

\* validateConfig with the key checks moved before the URL check.
validateConfig_KeysFirst(c) ==
  IF c.Endpoint = <<>>
    THEN <<Errorf("endpoint is empty", <<>>, <<>>)>>
  ELSE IF c.AccessKey = ""
    THEN <<Errorf("access key is empty", <<>>, <<>>)>>
  ELSE IF c.SecretKey = ""
    THEN <<Errorf("secret key is empty", <<>>, <<>>)>>
  ELSE IF urlParse(c.Endpoint) # <<>>
    THEN <<Errorf("url parse endpoint [%s] failed, error is [%v]",
                  c.Endpoint, urlParse(c.Endpoint))>>
  ELSE <<>>

\* validateConfig with the test of url.Parse's error inverted.
validateConfig_ParseInverted(c) ==
  IF c.Endpoint = <<>>
    THEN <<Errorf("endpoint is empty", <<>>, <<>>)>>
  ELSE IF urlParse(c.Endpoint) = <<>>
    THEN <<Errorf("url parse endpoint [%s] failed, error is [%v]",
                  c.Endpoint, urlParse(c.Endpoint))>>
  ELSE IF c.AccessKey = ""
    THEN <<Errorf("access key is empty", <<>>, <<>>)>>
  ELSE IF c.SecretKey = ""
    THEN <<Errorf("secret key is empty", <<>>, <<>>)>>
  ELSE <<>>

\* The error of validateConfig(c): <<>> is nil.
validateConfig(c) ==
  IF c.Endpoint = <<>>
    THEN <<Errorf("endpoint is empty", <<>>, <<>>)>>
  ELSE IF urlParse(c.Endpoint) # <<>>
    THEN <<Errorf("url parse endpoint [%s] failed, error is [%v]",
                  c.Endpoint, urlParse(c.Endpoint))>>
  ELSE IF c.AccessKey = ""
    THEN <<Errorf("access key is empty", <<>>, <<>>)>>
  ELSE IF c.SecretKey = ""
    THEN <<Errorf("secret key is empty", <<>>, <<>>)>>
  ELSE <<>>

\* ------------------------------------------------------------------------
\* The collaborators of NewS3Agent
\* ------------------------------------------------------------------------
defaultRegion == "us-east-1"
\* seconds
httpTimeOut == 200
maxRetries == 5

IsCertMaterial(bytes) == bytes = <<"cert">>

\* utils.BuildTLSConfig(rootCA): the pair (tls config, error).
BuildTLSConfig(rootCA) ==
  IF rootCA = <<>>
    THEN [tlsConfig |-> <<[trust |-> <<>>]>>, err |-> <<>>]
  ELSE IF ~IsCertMaterial(rootCA)
    THEN [tlsConfig |-> <<>>,
          err |-> <<NewError("utils", "invalid root certificate")>>]
  ELSE [tlsConfig |-> <<[trust |-> rootCA]>>, err |-> <<>>]

\* The TLS failure returned as it came, without the context.
TLSBuildError_Bare(e) == e

\* fmt.Errorf("build tls config failed, error is [%v]", err)
TLSBuildError(e) ==
  <<Errorf("build tls config failed, error is [%v]", <<>>, e)>>

\* http.Client{Timeout: httpTimeOut, Transport: &http.Transport{...}}
NewHTTPClient(tlsCfg) ==
  [Timeout |-> httpTimeOut, Transport |-> [TLSClientConfig |-> tlsCfg]]

\* The aws.Config with path-style addressing left off.
NewConfig_NoPathStyle(c, httpClient) ==
  [Region |-> defaultRegion,
   Credentials |-> [AccessKeyID |-> c.AccessKey,
                    SecretAccessKey |-> c.SecretKey, SessionToken |-> ""],
   Endpoint |-> c.Endpoint,
   S3ForcePathStyle |-> FALSE,
   MaxRetries |-> maxRetries,
   HTTPClient |-> httpClient]

\* aws.NewConfig().WithRegion(...)...WithHTTPClient(&client)
NewConfig(c, httpClient) ==
  [Region |-> defaultRegion,
   Credentials |-> [AccessKeyID |-> c.AccessKey,
                    SecretAccessKey |-> c.SecretKey, SessionToken |-> ""],
   Endpoint |-> c.Endpoint,
   S3ForcePathStyle |-> TRUE,
   MaxRetries |-> maxRetries,
   HTTPClient |-> httpClient]

\* Errors session.NewSession can return: they come from the process
\* environment (shared configuration files, a custom CA bundle), not from
\* the aws.Config passed in.
SessionErrors ==
  {NewError("aws-sdk", "failed to load environment config"),
   NewError("aws-sdk", "failed to load custom CA bundle PEM file")}

\* The results session.NewSession(awsCfg) can have: (session, nil) or
\* (nil, error).
NewSessionResults(awsCfg) ==
  {[s |-> <<[Config |-> awsCfg]>>, err |-> <<>>]}
    \cup {[s |-> <<>>, err |-> <<e>>] : e \in SessionErrors}

\* A handle that is one package-wide object instead of a new one per call.
NewHandle_Shared(addr, s) ==
  <<[addr |-> 0, Client |-> <<[addr |-> 0, Config |-> s.Config]>>]>>

\* &S3Agent{Client: s3.New(s)}: a new handle around a new client; addr is
\* the identity of the allocation, one per call.
NewHandle(addr, s) ==
  <<[addr |-> addr, Client |-> <<[addr |-> addr, Config |-> s.Config]>>]>>

\* NewS3Agent(c) as a function of its argument and of what session.NewSession
\* returns if it is called (sessRet): the pair (agent, error).
NewS3Agent(addr, c, sessRet) ==
  LET tls == BuildTLSConfig(c.RootCA) IN
  IF validateConfig(c) # <<>>
    THEN [agent |-> <<>>, err |-> validateConfig(c)]
  ELSE IF tls.err # <<>>
    THEN [agent |-> <<>>, err |-> TLSBuildError(tls.err)]
  ELSE IF sessRet.err # <<>>
    THEN [agent |-> <<>>, err |-> sessRet.err]
  ELSE [agent |-> NewHandle(addr, sessRet.s[1]), err |-> <<>>]

\* ------------------------------------------------------------------------
\* The calls of NewS3Agent, step by step
\* ------------------------------------------------------------------------
Callers == {1, 2}

\* Endpoints and configurations of the concurrent callers.
ConcEndpoints == {<<>>, <<"a">>, <<":">>, <<"a", ":", "/">>}
ConcConfigs ==
  [AccessKey : AccessKeys, SecretKey : SecretKeys,
   Endpoint : ConcEndpoints, RootCA : RootCAs]

VARIABLES
  pc,       \* where each caller's call stands
  cfg,      \* the argument of the call
  tlsRet,   \* what utils.BuildTLSConfig returned (tlsConfig, err)
  client,   \* the http.Client, once built
  sessRet,  \* what session.NewSession returned (s, err)
  agent,    \* the *S3Agent returned
  err,      \* the error returned
  steps     \* the steps the call has run, in order

vars == <<pc, cfg, tlsRet, client, sessRet, agent, err, steps>>

NoTLSRet == [tlsConfig |-> <<>>, err |-> <<>>]
NoSessRet == [s |-> <<>>, err |-> <<>>]

Init ==
  /\ pc = [p \in Callers |-> "idle"]
  /\ cfg = [p \in Callers |-> ZeroConfig]
  /\ tlsRet = [p \in Callers |-> NoTLSRet]
  /\ client = [p \in Callers |-> <<>>]
  /\ sessRet = [p \in Callers |-> NoSessRet]
  /\ agent = [p \in Callers |-> <<>>]
  /\ err = [p \in Callers |-> <<>>]
  /\ steps = [p \in Callers |-> <<>>]

Ran(p, step) == steps' = [steps EXCEPT ![p] = Append(@, step)]

\* A caller calls NewS3Agent(c).
Call(p, c) ==
  /\ pc[p] = "idle"
  /\ cfg' = [cfg EXCEPT ![p] = c]
  /\ pc' = [pc EXCEPT ![p] = "validate"]
  /\ UNCHANGED <<tlsRet, client, sessRet, agent, err, steps>>

\* The validation error dropped: the call goes on to the TLS step.
ValidateFail_Continue(p) ==
  /\ pc[p] = "validate"
  /\ validateConfig(cfg[p]) # <<>>
  /\ Ran(p, "validateConfig")
  /\ pc' = [pc EXCEPT ![p] = "tls"]
  /\ UNCHANGED <<cfg, tlsRet, client, sessRet, agent, err>>

\* if err := validateConfig(cfg); err != nil { return nil, err }
ValidateFail(p) ==
  /\ pc[p] = "validate"
  /\ validateConfig(cfg[p]) # <<>>
  /\ Ran(p, "validateConfig")
  /\ agent' = [agent EXCEPT ![p] = <<>>]
  /\ err' = [err EXCEPT ![p] = validateConfig(cfg[p])]
  /\ pc' = [pc EXCEPT ![p] = "done"]
  /\ UNCHANGED <<cfg, tlsRet, client, sessRet>>

ValidateOk(p) ==
  /\ pc[p] = "validate"
  /\ validateConfig(cfg[p]) = <<>>
  /\ Ran(p, "validateConfig")
  /\ pc' = [pc EXCEPT ![p] = "tls"]
  /\ UNCHANGED <<cfg, tlsRet, client, sessRet, agent, err>>

\* The error of utils.BuildTLSConfig ignored: the call goes on with a nil
\* TLS configuration.
BuildTLSFail_Ignored(p) ==
  /\ pc[p] = "tls"
  /\ BuildTLSConfig(cfg[p].RootCA).err # <<>>
  /\ Ran(p, "BuildTLSConfig")
  /\ tlsRet' = [tlsRet EXCEPT ![p] = BuildTLSConfig(cfg[p].RootCA)]
  /\ pc' = [pc EXCEPT ![p] = "http"]
  /\ UNCHANGED <<cfg, client, sessRet, agent, err>>

\* tlsConfig, err := utils.BuildTLSConfig(cfg.RootCA)
\* if err != nil { return nil, fmt.Errorf("build tls config failed, ...") }
BuildTLSFail(p) ==
  /\ pc[p] = "tls"
  /\ BuildTLSConfig(cfg[p].RootCA).err # <<>>
  /\ Ran(p, "BuildTLSConfig")
  /\ tlsRet' = [tlsRet EXCEPT ![p] = BuildTLSConfig(cfg[p].RootCA)]
  /\ agent' = [agent EXCEPT ![p] = <<>>]
  /\ err' = [err EXCEPT ![p] = TLSBuildError(BuildTLSConfig(cfg[p].RootCA).err)]
  /\ pc' = [pc EXCEPT ![p] = "done"]
  /\ UNCHANGED <<cfg, client, sessRet>>

BuildTLSOk(p) ==
  /\ pc[p] = "tls"
  /\ BuildTLSConfig(cfg[p].RootCA).err = <<>>
  /\ Ran(p, "BuildTLSConfig")
  /\ tlsRet' = [tlsRet EXCEPT ![p] = BuildTLSConfig(cfg[p].RootCA)]
  /\ pc' = [pc EXCEPT ![p] = "http"]
  /\ UNCHANGED <<cfg, client, sessRet, agent, err>>

\* tr := &http.Transport{...}; client := http.Client{...}
BuildHTTPClient(p) ==
  /\ pc[p] = "http"
  /\ Ran(p, "http.Client")
  /\ client' = [client EXCEPT ![p] = <<NewHTTPClient(tlsRet[p].tlsConfig)>>]
  /\ pc' = [pc EXCEPT ![p] = "session"]
  /\ UNCHANGED <<cfg, tlsRet, sessRet, agent, err>>

\* The session failure answered with a handle around a nil client, beside
\* the error.
SessionFail_Fallback(p) ==
  /\ pc[p] = "session"
  /\ \E r \in NewSessionResults(NewConfig(cfg[p], client[p][1])) :
       /\ r.err # <<>>
       /\ sessRet' = [sessRet EXCEPT ![p] = r]
       /\ agent' = [agent EXCEPT ![p] = <<[addr |-> p, Client |-> <<>>]>>]
       /\ err' = [err EXCEPT ![p] = r.err]
  /\ Ran(p, "NewSession")
  /\ pc' = [pc EXCEPT ![p] = "done"]
  /\ UNCHANGED <<cfg, tlsRet, client>>

\* The session failure returned inside a new error.
SessionFail_Wrapped(p) ==
  /\ pc[p] = "session"
  /\ \E r \in NewSessionResults(NewConfig(cfg[p], client[p][1])) :
       /\ r.err # <<>>
       /\ sessRet' = [sessRet EXCEPT ![p] = r]
       /\ err' = [err EXCEPT ![p] =
                    <<Errorf("new session failed, error is [%v]", <<>>, r.err)>>]
  /\ Ran(p, "NewSession")
  /\ agent' = [agent EXCEPT ![p] = <<>>]
  /\ pc' = [pc EXCEPT ![p] = "done"]
  /\ UNCHANGED <<cfg, tlsRet, client>>

\* s, err := session.NewSession(...); if err != nil { return nil, err }
SessionFail(p) ==
  /\ pc[p] = "session"
  /\ \E r \in NewSessionResults(NewConfig(cfg[p], client[p][1])) :
       /\ r.err # <<>>
       /\ sessRet' = [sessRet EXCEPT ![p] = r]
       /\ err' = [err EXCEPT ![p] = r.err]
  /\ Ran(p, "NewSession")
  /\ agent' = [agent EXCEPT ![p] = <<>>]
  /\ pc' = [pc EXCEPT ![p] = "done"]
  /\ UNCHANGED <<cfg, tlsRet, client>>

SessionOk(p) ==
  /\ pc[p] = "session"
  /\ \E r \in NewSessionResults(NewConfig(cfg[p], client[p][1])) :
       /\ r.err = <<>>
       /\ sessRet' = [sessRet EXCEPT ![p] = r]
  /\ Ran(p, "NewSession")
  /\ pc' = [pc EXCEPT ![p] = "api"]
  /\ UNCHANGED <<cfg, tlsRet, client, agent, err>>

\* return &S3Agent{Client: s3.New(s)}, nil
BuildAgent(p) ==
  /\ pc[p] = "api"
  /\ Ran(p, "s3.New")
  /\ agent' = [agent EXCEPT ![p] = NewHandle(p, sessRet[p].s[1])]
  /\ err' = [err EXCEPT ![p] = <<>>]
  /\ pc' = [pc EXCEPT ![p] = "done"]
  /\ UNCHANGED <<cfg, tlsRet, client, sessRet>>

Step(p) ==
  \/ ValidateFail(p)
  \/ ValidateOk(p)
  \/ BuildTLSFail(p)
  \/ BuildTLSOk(p)
  \/ BuildHTTPClient(p)
  \/ SessionFail(p)
  \/ SessionOk(p)
  \/ BuildAgent(p)

\* One caller, every configuration.
Next ==
  \/ \E c \in Configs : Call(1, c)
  \/ Step(1)

Spec == Init /\ [][Next]_vars

\* Two callers whose calls interleave step by step.
ConcNext ==
  \/ \E p \in Callers : \E c \in ConcConfigs : Call(p, c)
  \/ \E p \in Callers : Step(p)

SpecConc == Init /\ [][ConcNext]_vars

\* ------------------------------------------------------------------------
\* Vocabulary of the properties
\* ------------------------------------------------------------------------
Done(p) == pc[p] = "done"
Failed(p) == Done(p) /\ err[p] # <<>>
Succeeded(p) == Done(p) /\ err[p] = <<>>
LastStep(p) == IF steps[p] = <<>> THEN "none" ELSE steps[p][Len(steps[p])]
IsPrefix(s, t) == Len(s) <= Len(t) /\ SubSeq(t, 1, Len(s)) = s

StepOrder ==
  <<"validateConfig", "BuildTLSConfig", "http.Client", "NewSession", "s3.New">>

MissingFieldTexts ==
  {"endpoint is empty", "access key is empty", "secret key is empty"}
InvalidEndpointText == "url parse endpoint [%s] failed, error is [%v]"
TLSConfigText == "build tls config failed, error is [%v]"

\* The error condition of the specification an error value stands for.
ErrorKind(e) ==
  IF e.origin = "agent" /\ e.text \in MissingFieldTexts THEN "MissingField"
  ELSE IF e.origin = "agent" /\ e.text = InvalidEndpointText
    THEN "InvalidEndpoint"
  ELSE IF e.origin = "agent" /\ e.text = TLSConfigText THEN "TLSConfigError"
  ELSE IF e.origin = "aws-sdk" THEN "SessionError"
  ELSE "Other"

\* The construction step named by the context NewS3Agent put on an error;
\* "none" for an error that carries no context of NewS3Agent's.
ContextStep(e) ==
  IF e.origin # "agent" THEN "none"
  ELSE IF e.text \in MissingFieldTexts \cup {InvalidEndpointText}
    THEN "validateConfig"
  ELSE IF e.text = TLSConfigText THEN "BuildTLSConfig"
  ELSE "none"

HasEmptyField(c) ==
  c.AccessKey = "" \/ c.SecretKey = "" \/ c.Endpoint = <<>>

Parses(endpoint) == urlParse(endpoint) = <<>>

\* ------------------------------------------------------------------------
\* C1
\* ------------------------------------------------------------------------
\* C1 as stated: a configuration with an empty access key, secret key or
\* endpoint always ends in a MissingField error and no handle.
C1_Original ==
  \A p \in Callers :
    Done(p) /\ HasEmptyField(cfg[p]) =>
      /\ agent[p] = <<>>
      /\ err[p] # <<>>
      /\ ErrorKind(err[p][1]) = "MissingField"

\* C1 amended: a configuration with an empty access key, secret key or
\* endpoint ends in an error and no handle; the error is MissingField,
\* except that a non-empty endpoint that does not parse gives
\* InvalidEndpoint (the endpoint is checked before the keys).
C1_Amended ==
  \A p \in Callers :
    Done(p) /\ HasEmptyField(cfg[p]) =>
      /\ agent[p] = <<>>
      /\ err[p] # <<>>
      /\ ErrorKind(err[p][1]) =
           IF cfg[p].Endpoint # <<>> /\ ~Parses(cfg[p].Endpoint)
             THEN "InvalidEndpoint" ELSE "MissingField"

C1_Witness ==
  \E p \in Callers :
    /\ Done(p)
    /\ cfg[p].AccessKey = "" /\ cfg[p].SecretKey = "SK"
    /\ cfg[p].Endpoint # <<>> /\ Parses(cfg[p].Endpoint)
    /\ agent[p] = <<>>
    /\ err[p] = <<Errorf("access key is empty", <<>>, <<>>)>>

\* ------------------------------------------------------------------------
\* C2
\* ------------------------------------------------------------------------
\* C2: a configuration whose endpoint does not parse as a URL ends in an
\* InvalidEndpoint error and no handle, whatever its other fields are.
C2_InvalidEndpoint ==
  \A p \in Callers :
    Done(p) /\ ~Parses(cfg[p].Endpoint) =>
      /\ agent[p] = <<>>
      /\ err[p] # <<>>
      /\ ErrorKind(err[p][1]) = "InvalidEndpoint"

C2_Witness ==
  \E p \in Callers :
    /\ Done(p)
    /\ ~Parses(cfg[p].Endpoint)
    /\ cfg[p].AccessKey = "" /\ cfg[p].SecretKey = ""
    /\ cfg[p].RootCA = <<"junk">>
    /\ agent[p] = <<>>
    /\ err[p] # <<>> /\ ErrorKind(err[p][1]) = "InvalidEndpoint"

\* ------------------------------------------------------------------------
\* C3
\* ------------------------------------------------------------------------
ValidNoCA(c) ==
  /\ c.AccessKey # "" /\ c.SecretKey # ""
  /\ c.Endpoint # <<>> /\ Parses(c.Endpoint)
  /\ c.RootCA = <<>>

IsHandle(a) == a # <<>> /\ a[1].Client # <<>>

\* C3 as stated: non-empty keys, a non-empty endpoint that parses and no
\* root certificate always end in a handle around a non-null client and no
\* error.
C3_Original ==
  \A p \in Callers :
    Done(p) /\ ValidNoCA(cfg[p]) => err[p] = <<>> /\ IsHandle(agent[p])

\* C3 amended: such a configuration passes validation and the TLS build, so
\* the call reaches session.NewSession; it ends in a handle around a
\* non-null client and no error when session.NewSession returns no error,
\* and in that error and no handle when it returns one.
C3_Amended ==
  \A p \in Callers :
    Done(p) /\ ValidNoCA(cfg[p]) =>
      /\ Len(steps[p]) >= 4
      /\ IF sessRet[p].err = <<>>
           THEN err[p] = <<>> /\ IsHandle(agent[p])
           ELSE err[p] = sessRet[p].err /\ agent[p] = <<>>

C3_Witness ==
  \E p \in Callers :
    /\ Done(p)
    /\ ValidNoCA(cfg[p])
    /\ cfg[p].Endpoint = <<"a">>
    /\ err[p] = <<>>
    /\ IsHandle(agent[p])

\* ------------------------------------------------------------------------
\* C4
\* ------------------------------------------------------------------------
BadRootCA(c) == c.RootCA # <<>> /\ ~IsCertMaterial(c.RootCA)

\* C4 as stated: root certificate bytes that are no certificate always end
\* in a TLSConfigError and no handle.
C4_Original ==
  \A p \in Callers :
    Done(p) /\ BadRootCA(cfg[p]) =>
      /\ agent[p] = <<>>
      /\ err[p] # <<>>
      /\ ErrorKind(err[p][1]) = "TLSConfigError"

\* C4 amended: root certificate bytes that are no certificate, in a
\* configuration that passes validation, end in a TLSConfigError and no
\* handle (a configuration that fails validation ends in the validation
\* error, whatever its root certificate).
C4_Amended ==
  \A p \in Callers :
    Done(p) /\ BadRootCA(cfg[p]) =>
      /\ agent[p] = <<>>
      /\ err[p] # <<>>
      /\ ErrorKind(err[p][1]) =
           IF validateConfig(cfg[p]) = <<>> THEN "TLSConfigError"
           ELSE ErrorKind(validateConfig(cfg[p])[1])

C4_Witness ==
  \E p \in Callers :
    /\ Done(p)
    /\ BadRootCA(cfg[p])
    /\ validateConfig(cfg[p]) = <<>>
    /\ agent[p] = <<>>
    /\ err[p] # <<>> /\ ErrorKind(err[p][1]) = "TLSConfigError"

\* ------------------------------------------------------------------------
\* C5
\* ------------------------------------------------------------------------
\* C5: a call that has returned gave either a handle around a non-null
\* client and no error, or an error and no handle.
C5_HandleXorError ==
  \A p \in Callers :
    Done(p) =>
      \/ IsHandle(agent[p]) /\ err[p] = <<>>
      \/ agent[p] = <<>> /\ err[p] # <<>>

C5_Witness ==
  \E p \in Callers :
    /\ Done(p)
    /\ LastStep(p) = "NewSession"
    /\ sessRet[p].err # <<>>
    /\ agent[p] = <<>> /\ err[p] # <<>>

\* ------------------------------------------------------------------------
\* C6
\* ------------------------------------------------------------------------
\* C6: the client of a returned handle rests on a session opened with the
\* caller's endpoint, static credentials of the caller's access key and
\* secret key, path-style addressing on, 5 retries at most, the region
\* "us-east-1", and an HTTP client with a timeout of 200 seconds over the
\* transport holding the TLS configuration built from the root certificate.
C6_SessionParameters ==
  \A p \in Callers :
    Succeeded(p) =>
      /\ IsHandle(agent[p])
      /\ agent[p][1].Client[1].Config =
           [Region |-> "us-east-1",
            Credentials |-> [AccessKeyID |-> cfg[p].AccessKey,
                             SecretAccessKey |-> cfg[p].SecretKey,
                             SessionToken |-> ""],
            Endpoint |-> cfg[p].Endpoint,
            S3ForcePathStyle |-> TRUE,
            MaxRetries |-> 5,
            HTTPClient |->
              [Timeout |-> 200,
               Transport |->
                 [TLSClientConfig |-> BuildTLSConfig(cfg[p].RootCA).tlsConfig]]]

C6_Witness ==
  \E p \in Callers :
    /\ Succeeded(p)
    /\ cfg[p].RootCA = <<"cert">>
    /\ cfg[p].Endpoint = <<"a", ":", "/">>
    /\ agent[p][1].Client[1].Config.Endpoint = <<"a", ":", "/">>
    /\ agent[p][1].Client[1].Config.S3ForcePathStyle

\* ------------------------------------------------------------------------
\* C7
\* ------------------------------------------------------------------------
ValidConfig(c) ==
  validateConfig(c) = <<>> /\ BuildTLSConfig(c.RootCA).err = <<>>

\* C7 as stated: two calls with the same valid configuration both end in a
\* handle, and the two handles are distinct.
C7_Original ==
  \A p \in Callers : \A q \in Callers \ {p} :
    Done(p) /\ Done(q) /\ cfg[p] = cfg[q] /\ ValidConfig(cfg[p]) =>
      /\ err[p] = <<>> /\ IsHandle(agent[p])
      /\ err[q] = <<>> /\ IsHandle(agent[q])
      /\ agent[p][1].addr # agent[q][1].addr

\* What a call holds is a function of its own argument and of what its own
\* session.NewSession call returned.
OwnState(p) ==
  LET tls == BuildTLSConfig(cfg[p].RootCA)
      httpClient == NewHTTPClient(tls.tlsConfig)
  IN
  /\ pc[p] = "idle" =>
       /\ cfg[p] = ZeroConfig /\ steps[p] = <<>>
       /\ agent[p] = <<>> /\ err[p] = <<>>
  /\ tlsRet[p] \in {NoTLSRet, tls}
  /\ client[p] \in {<<>>, <<httpClient>>}
  /\ sessRet[p] \in
       {NoSessRet} \cup NewSessionResults(NewConfig(cfg[p], httpClient))

\* C7 amended: two calls, run one after the other or interleaved, each end
\* as the call does when it runs alone with the same result of
\* session.NewSession (which may fail for a valid configuration); nothing a
\* call holds comes from the other call; and when both return a handle,
\* the handles and their clients are distinct objects, equal in content
\* when the configurations are equal.
C7_Amended ==
  /\ \A p \in Callers :
       /\ OwnState(p)
       /\ Done(p) =>
            [agent |-> agent[p], err |-> err[p]]
              = NewS3Agent(p, cfg[p], sessRet[p])
  /\ \A p \in Callers : \A q \in Callers \ {p} :
       Succeeded(p) /\ Succeeded(q) =>
         /\ IsHandle(agent[p]) /\ IsHandle(agent[q])
         /\ agent[p][1].addr # agent[q][1].addr
         /\ agent[p][1].Client[1].addr # agent[q][1].Client[1].addr
         /\ cfg[p] = cfg[q] =>
              agent[p][1].Client[1].Config = agent[q][1].Client[1].Config

C7_Witness ==
  \E p \in Callers : \E q \in Callers \ {p} :
    /\ Succeeded(p) /\ Succeeded(q)
    /\ cfg[p] = cfg[q]
    /\ IsHandle(agent[p]) /\ IsHandle(agent[q])
    /\ agent[p][1].addr # agent[q][1].addr

\* ------------------------------------------------------------------------
\* C8
\* ------------------------------------------------------------------------
\* C8 as stated: every error returned carries a context that names the
\* step that failed.
C8_Original ==
  \A p \in Callers :
    Failed(p) => ContextStep(err[p][1]) = LastStep(p)

\* C8 amended: an error from validation or from the TLS build carries a
\* context of NewS3Agent's that names the step that failed; an error from
\* session.NewSession is returned as it is and carries no context of
\* NewS3Agent's.
C8_Amended ==
  \A p \in Callers :
    Failed(p) =>
      /\ LastStep(p) \in {"validateConfig", "BuildTLSConfig", "NewSession"}
      /\ LastStep(p) # "NewSession" =>
           ContextStep(err[p][1]) = LastStep(p)
      /\ LastStep(p) = "NewSession" =>
           ContextStep(err[p][1]) = "none" /\ err[p] = sessRet[p].err

C8_Witness ==
  \E p \in Callers :
    /\ Failed(p)
    /\ LastStep(p) = "BuildTLSConfig"
    /\ ContextStep(err[p][1]) = "BuildTLSConfig"

\* ------------------------------------------------------------------------
\* C9
\* ------------------------------------------------------------------------
\* C9: a validation failure is returned as validateConfig produced it; a
\* TLS failure is returned as a new error with the "build tls config
\* failed" context around the error of the TLS build; a session failure is
\* returned as the error value session.NewSession produced.
C9_ErrorFormation ==
  \A p \in Callers :
    Failed(p) =>
      /\ LastStep(p) = "validateConfig" =>
           /\ err[p] = validateConfig(cfg[p])
           /\ err[p][1].cause \in {<<>>, urlParse(cfg[p].Endpoint)}
      /\ LastStep(p) = "BuildTLSConfig" =>
           /\ tlsRet[p].err # <<>>
           /\ err[p] =
                <<[origin |-> "agent",
                   text |-> "build tls config failed, error is [%v]",
                   subject |-> <<>>,
                   cause |-> tlsRet[p].err]>>
      /\ LastStep(p) = "NewSession" =>
           /\ sessRet[p].err # <<>>
           /\ err[p] = sessRet[p].err
      /\ LastStep(p) \in {"validateConfig", "BuildTLSConfig", "NewSession"}

C9_Witness ==
  \E p \in Callers :
    /\ Failed(p)
    /\ LastStep(p) = "NewSession"
    /\ err[p] = sessRet[p].err
    /\ err[p][1] \in SessionErrors

\* ------------------------------------------------------------------------
\* C10
\* ------------------------------------------------------------------------
\* C10: the steps of a call run in the order validateConfig,
\* BuildTLSConfig, HTTP client, NewSession, s3.New, each at most once; a
\* step runs only if every earlier step succeeded, and the call returns at
\* the first step that fails.
C10_StepOrder ==
  \A p \in Callers :
    /\ IsPrefix(steps[p], StepOrder)
    /\ pc[p] # "idle" /\ validateConfig(cfg[p]) # <<>> =>
         Len(steps[p]) <= 1
    /\ pc[p] # "idle" /\ BuildTLSConfig(cfg[p].RootCA).err # <<>> =>
         Len(steps[p]) <= 2
    /\ sessRet[p].err # <<>> => Len(steps[p]) = 4 /\ Failed(p)
    /\ Len(steps[p]) >= 1 /\ validateConfig(cfg[p]) # <<>> => Failed(p)
    /\ Len(steps[p]) >= 2 /\ BuildTLSConfig(cfg[p].RootCA).err # <<>> =>
         Failed(p)
    /\ Succeeded(p) => steps[p] = StepOrder
    /\ Failed(p) => Len(steps[p]) \in {1, 2, 4}

C10_Witness ==
  \E p \in Callers :
    /\ Succeeded(p)
    /\ steps[p] = StepOrder

====
